---- MODULE Spec2Model ----
(***************************************************************************)
(* Training / test control loop of BaseHierarchicalEncoderDecoder          *)
(* (thred/models/hierarchical_base.py).                                    *)
(*                                                                         *)
(* Spec      one call of train(): start-up, the while loop (step, epoch    *)
(*           rollover, stats report, eval cycle), final checkpoint, final  *)
(*           best-model evaluation, closing of the sessions.               *)
(* SpecTest  one call of test(): the precondition asserts, then decoding   *)
(*           and perplexity on the test set.                               *)
(*                                                                         *)
(* Perplexities are integers; Inf stands for float('inf').  The degrade    *)
(* threshold is a rational <<num, den>>.                                   *)
(***************************************************************************)
EXTENDS Integers, Sequences, FiniteSets, TLC

\* ------------------------------------------------------------ bounds
MaxEpochs == 2
MaxTrain == 2
MaxDev == 3
MaxBeam == 5

\* float('inf'), the value of best_dev_ppl of a fresh RunConfig
Inf == 1000000

\* values of the configuration the runs are checked for
Intervals == {1, 2}
BatchSizes == {1, 2}
LoadedSteps == {0, 1}
Thresholds == {<<11, 10>>}
DevPpls == {50, 55, 60, 70}
BestInit == {Inf, 60}
PatienceValues == {-1, 0, 1, 2, 3}
TrainSteps == {2}

VARIABLES
    pc,               \* position of train() in its code
    error,            \* the exception that left train(), "none" while it runs
    config,           \* self.config: epoch, epoch_step, best_dev_ppl, patience
    saved,            \* the RunConfig on disk (self.config.save())
    patience,         \* the local remaining-patience counter
    loaded_step,      \* global_step of the checkpoint create_or_load_model finds
    global_step,
    last_stats_step,
    last_eval_step,
    stats,            \* stats accumulator: steps accumulated since init_stats()
    is_overflow,      \* result of the last check_stats
    sessions,         \* the sessions of train() that are open
    iter_pos,         \* elements of the training set the iterator has passed
    skip_count,       \* skip count of the last iterator initialisation
    dev_ppl,          \* result of the last run_internal_eval
    decode_ids,       \* indices drawn by the last _sample_decode
    ckpts,            \* global_step tags of the checkpoints saved, in order
    best_evals,       \* number of final best-model evaluations run
    num_train_epochs,
    steps_per_stats,
    steps_per_eval,
    batch_size,
    train_size,       \* elements of the training set
    dev_size,         \* len(eval_data)
    degrade_threshold,
    eval_best_model,
    num_train_steps,  \* the total the start-up log line and the progress bar show
    non_improving,    \* history: eval cycles in a row with dev_ppl >= best_dev_ppl
    degrading,        \* history: those of them with dev_ppl > threshold * best
    min_ppl,          \* history: least of the first best_dev_ppl and all dev_ppl
    tpc,              \* position of test() in its code
    n_responses,
    beam_width,
    t_models,         \* models created by test()
    t_loaded,         \* models test() loaded from the latest checkpoint
    t_sessions        \* sessions of test() that are open

train_vars == <<pc, error, config, saved, patience, loaded_step, global_step, last_stats_step,
                last_eval_step, stats, sessions, iter_pos, skip_count, dev_ppl,
                decode_ids, ckpts, best_evals, num_train_epochs, steps_per_stats,
                steps_per_eval, batch_size, train_size, dev_size,
                degrade_threshold, eval_best_model, num_train_steps,
                non_improving, degrading, min_ppl, is_overflow>>

test_vars == <<tpc, n_responses, beam_width, t_models, t_loaded, t_sessions>>

vars == <<train_vars, test_vars>>

inputs == <<num_train_epochs, steps_per_stats, steps_per_eval, batch_size,
            train_size, dev_size, degrade_threshold, eval_best_model,
            loaded_step, num_train_steps>>

history == <<non_improving, degrading, min_ppl>>

\* ------------------------------------------------------------ helpers

Min(a, b) == IF a <= b THEN a ELSE b

\* np.random.randint(low, high, size=1): the values it can draw, high excluded;
\* empty when low >= high, where numpy raises ValueError
np_random_randint(low, high) == low .. (high - 1)

\* decode_ids of _sample_decode for len(eval_data) = n
sample_decode_ids(n) == np_random_randint(0, n - 1)

\* what the loop of train() starts with when RunConfig cfg was loaded
ResumeState(cfg) ==
    [epoch |-> cfg.epoch, epoch_step |-> cfg.epoch_step,
     best_dev_ppl |-> cfg.best_dev_ppl, patience |-> cfg.patience]

\* what the loop of train() holds
LoopState ==
    [epoch |-> config.epoch, epoch_step |-> config.epoch_step,
     best_dev_ppl |-> config.best_dev_ppl, patience |-> patience]

\* LoopCond without the patience test
LoopCond_EpochOnly == config.epoch < num_train_epochs

\* LoopCond without the epoch test
LoopCond_PatienceOnly == patience > 0

\* the while condition of train()
LoopCond == config.epoch < num_train_epochs /\ patience > 0

\* StatsDue with > for >=
StatsDue_Strict == global_step - last_stats_step > steps_per_stats

StatsDue == global_step - last_stats_step >= steps_per_stats

EvalDue == global_step - last_eval_step >= steps_per_eval

\* Improved with > for <
Improved_Greater(dev, best) == dev > best

\* dev_ppl < self.config.best_dev_ppl
Improved(dev, best) == dev < best

\* Degraded with >= for >
Degraded_GreaterEq(dev, best) ==
    IF best = Inf THEN dev = Inf
    ELSE IF dev = Inf THEN TRUE
    ELSE dev * degrade_threshold[2] >= degrade_threshold[1] * best

\* dev_ppl > self.config.degrade_threshold * self.config.best_dev_ppl
Degraded(dev, best) ==
    IF best = Inf THEN FALSE
    ELSE IF dev = Inf THEN TRUE
    ELSE dev * degrade_threshold[2] > degrade_threshold[1] * best

\* lines 155-156: best_dev_ppl after an eval cycle that measured dev
NextBest(dev, best) == IF Improved(dev, best) THEN dev ELSE best

\* NextPatience without the reset on an improvement
NextPatience_NoReset(dev, best, p, max) ==
    IF Improved(dev, best) THEN p
    ELSE IF Degraded(dev, best) THEN p - 1
    ELSE p

\* lines 155-164: the remaining patience p after an eval cycle that measured
\* dev, with max the configured patience
NextPatience(dev, best, p, max) ==
    IF Improved(dev, best) THEN max
    ELSE IF Degraded(dev, best) THEN p - 1
    ELSE p

\* update_stats: the global step after one more successful step
update_stats(step) == step + 1

\* the training iterator after its initializer ran with skip count s
IteratorInit(s) == Min(train_size, s)

\* the training iterator has a batch left
HasBatch == iter_pos < train_size

\* the three sessions train() opens
TrainSessions == {"train", "eval", "infer"}

Raise(e) == /\ pc' = "raised"
            /\ error' = e

\* ------------------------------------------------------------ train()

TrainIdleTest ==
    /\ tpc = "idle"
    /\ n_responses = 1
    /\ beam_width = 0
    /\ t_models = {}
    /\ t_loaded = {}
    /\ t_sessions = {}

TrainInit ==
    /\ pc = "start"
    /\ error = "none"
    /\ config \in [epoch : 0 .. 1, epoch_step : 0 .. 1,
                   best_dev_ppl : BestInit, patience : PatienceValues]
    /\ saved = config
    /\ patience = 0
    /\ loaded_step \in LoadedSteps
    /\ global_step = 0
    /\ last_stats_step = 0
    /\ last_eval_step = 0
    /\ stats = 0
    /\ is_overflow = FALSE
    /\ sessions = {}
    /\ iter_pos = 0
    /\ skip_count = 0
    /\ dev_ppl = 0
    /\ decode_ids = <<>>
    /\ ckpts = <<>>
    /\ best_evals = 0
    /\ num_train_epochs \in 0 .. MaxEpochs
    /\ steps_per_stats \in Intervals
    /\ steps_per_eval \in Intervals
    /\ batch_size \in BatchSizes
    /\ train_size \in 0 .. MaxTrain
    /\ dev_size \in 0 .. MaxDev
    /\ degrade_threshold \in Thresholds
    /\ eval_best_model \in BOOLEAN
    /\ num_train_steps \in TrainSteps
    /\ non_improving = 0
    /\ degrading = 0
    /\ min_ppl = config.best_dev_ppl

Init == TrainInit /\ TrainIdleTest

\* lines 52-97: config saved, sessions opened, global_step loaded, counters and
\* the training iterator initialised
TrainStart ==
    /\ pc = "start"
    /\ saved' = config
    /\ sessions' = TrainSessions
    /\ global_step' = loaded_step
    /\ last_stats_step' = global_step'
    /\ last_eval_step' = global_step'
    /\ patience' = ResumeState(config).patience
    /\ stats' = 0
    /\ skip_count' = batch_size * config.epoch_step
    /\ iter_pos' = IteratorInit(batch_size * config.epoch_step)
    /\ pc' = "while"
    /\ UNCHANGED <<error, config, dev_ppl, decode_ids, ckpts, best_evals,
                   inputs, history, is_overflow, test_vars>>

\* WhileTest that enters the body whatever the condition
WhileTest_Unconditional ==
    /\ pc = "while"
    /\ pc' = "step"
    /\ UNCHANGED <<error, config, saved, patience, global_step, last_stats_step,
                   last_eval_step, stats, sessions, iter_pos, skip_count, dev_ppl,
                   decode_ids, ckpts, best_evals, inputs, history, is_overflow, test_vars>>

\* line 99
WhileTest ==
    /\ pc = "while"
    /\ pc' = IF LoopCond THEN "step" ELSE "final_save"
    /\ UNCHANGED <<error, config, saved, patience, global_step, last_stats_step,
                   last_eval_step, stats, sessions, iter_pos, skip_count, dev_ppl,
                   decode_ids, ckpts, best_evals, inputs, history, is_overflow, test_vars>>

\* StepOk with the step of the epoch taken for the global step
StepOk_EpochStep ==
    /\ pc = "step"
    /\ iter_pos < train_size
    /\ iter_pos' = Min(train_size, iter_pos + batch_size)
    /\ config' = [config EXCEPT !.epoch_step = @ + 1]
    /\ global_step' = config'.epoch_step
    /\ stats' = stats + 1
    /\ pc' = "stats"
    /\ UNCHANGED <<error, saved, patience, last_stats_step, last_eval_step,
                   sessions, skip_count, dev_ppl, decode_ids, ckpts, best_evals,
                   inputs, history, is_overflow, test_vars>>

\* lines 104-105 and 127: a successful step
StepOk ==
    /\ pc = "step"
    /\ HasBatch
    /\ iter_pos' = Min(train_size, iter_pos + batch_size)
    /\ config' = [config EXCEPT !.epoch_step = @ + 1]
    /\ global_step' = update_stats(global_step)
    /\ stats' = stats + 1
    /\ pc' = "stats"
    /\ UNCHANGED <<error, saved, patience, last_stats_step, last_eval_step,
                   sessions, skip_count, dev_ppl, decode_ids, ckpts, best_evals,
                   inputs, history, is_overflow, test_vars>>

\* StepExhausted that goes back to the loop test without a rollover
StepExhausted_Retry ==
    /\ pc = "step"
    /\ ~HasBatch
    /\ pc' = "while"
    /\ UNCHANGED <<error, config, saved, patience, global_step, last_stats_step,
                   last_eval_step, stats, sessions, iter_pos, skip_count, dev_ppl,
                   decode_ids, ckpts, best_evals, inputs, history, is_overflow, test_vars>>

\* lines 104, 106: the iterator is exhausted, tf.errors.OutOfRangeError
StepExhausted ==
    /\ pc = "step"
    /\ ~HasBatch
    /\ pc' = "roll_decode"
    /\ UNCHANGED <<error, config, saved, patience, global_step, last_stats_step,
                   last_eval_step, stats, sessions, iter_pos, skip_count, dev_ppl,
                   decode_ids, ckpts, best_evals, inputs, history, is_overflow, test_vars>>

\* line 104: the step raises something else, which train() does not catch
StepFail ==
    /\ pc = "step"
    /\ Raise("Failure")
    /\ UNCHANGED <<config, saved, patience, global_step, last_stats_step,
                   last_eval_step, stats, sessions, iter_pos, skip_count, dev_ppl,
                   decode_ids, ckpts, best_evals, inputs, history, is_overflow, test_vars>>

\* run_sample_decode -> _sample_decode (lines 229-267), then on to pc = next
SampleDecode(at, next) ==
    /\ pc = at
    /\ \/ /\ sample_decode_ids(dev_size) = {}
          /\ Raise("ValueError")
          /\ UNCHANGED decode_ids
       \/ /\ \E i \in sample_decode_ids(dev_size) : decode_ids' = <<i>>
          /\ pc' = next
          /\ UNCHANGED error
       \/ /\ sample_decode_ids(dev_size) # {}
          /\ Raise("Failure")
          /\ UNCHANGED decode_ids
    /\ UNCHANGED <<config, saved, patience, global_step, last_stats_step,
                   last_eval_step, stats, sessions, iter_pos, skip_count, dev_ppl,
                   ckpts, best_evals, inputs, history, is_overflow, test_vars>>

\* line 109
RollDecode == SampleDecode("roll_decode", "roll_update")

\* RollUpdate without the reset of epoch_step
RollUpdate_KeepStep ==
    /\ pc = "roll_update"
    /\ config' = [config EXCEPT !.epoch = @ + 1]
    /\ saved' = config'
    /\ skip_count' = 0
    /\ iter_pos' = IteratorInit(0)
    /\ pc' = "while"
    /\ UNCHANGED <<error, patience, global_step, last_stats_step, last_eval_step,
                   stats, sessions, dev_ppl, decode_ids, ckpts, best_evals,
                   inputs, history, is_overflow, test_vars>>

\* lines 116-124: the epoch rollover
RollUpdate ==
    /\ pc = "roll_update"
    /\ config' = [config EXCEPT !.epoch = @ + 1, !.epoch_step = 0]
    /\ saved' = config'
    /\ skip_count' = 0
    /\ iter_pos' = IteratorInit(0)
    /\ pc' = "while"
    /\ UNCHANGED <<error, patience, global_step, last_stats_step, last_eval_step,
                   stats, sessions, dev_ppl, decode_ids, ckpts, best_evals,
                   inputs, history, is_overflow, test_vars>>

\* StatsReport that goes on to the eval cycle after an overflow
StatsReport_NoBreak ==
    /\ pc = "stats"
    /\ IF StatsDue
       THEN /\ last_stats_step' = global_step
            /\ is_overflow' \in BOOLEAN
            /\ pc' = "eval"
            /\ stats' = IF is_overflow' THEN stats ELSE 0
       ELSE /\ pc' = "eval"
            /\ UNCHANGED <<last_stats_step, stats, is_overflow>>
    /\ UNCHANGED <<error, config, saved, patience, global_step, last_eval_step,
                   sessions, iter_pos, skip_count, dev_ppl, decode_ids, ckpts,
                   best_evals, inputs, history, test_vars>>

\* lines 130-139: the stats report
StatsReport ==
    /\ pc = "stats"
    /\ IF StatsDue
       THEN /\ last_stats_step' = global_step
            /\ is_overflow' \in BOOLEAN
            /\ IF is_overflow'
               THEN pc' = "final_save" /\ UNCHANGED stats
               ELSE pc' = "eval" /\ stats' = 0
       ELSE /\ pc' = "eval"
            /\ UNCHANGED <<last_stats_step, stats, is_overflow>>
    /\ UNCHANGED <<error, config, saved, patience, global_step, last_eval_step,
                   sessions, iter_pos, skip_count, dev_ppl, decode_ids, ckpts,
                   best_evals, inputs, history, test_vars>>

\* line 141 false: no eval cycle in this iteration
EvalSkip ==
    /\ pc = "eval"
    /\ ~EvalDue
    /\ pc' = "while"
    /\ UNCHANGED <<error, config, saved, patience, global_step, last_stats_step,
                   last_eval_step, stats, sessions, iter_pos, skip_count, dev_ppl,
                   decode_ids, ckpts, best_evals, inputs, history, is_overflow, test_vars>>

\* EvalSave without the checkpoint
EvalSave_NoCkpt ==
    /\ pc = "eval"
    /\ EvalDue
    /\ last_eval_step' = global_step
    /\ pc' = "eval_decode"
    /\ UNCHANGED <<error, ckpts, config, saved, patience, global_step,
                   last_stats_step, stats, sessions, iter_pos, skip_count,
                   dev_ppl, decode_ids, best_evals, inputs, history,
                   is_overflow, test_vars>>

\* lines 141-150: the eval cycle begins, the checkpoint is saved
EvalSave ==
    /\ pc = "eval"
    /\ EvalDue
    /\ last_eval_step' = global_step
    /\ \/ /\ ckpts' = Append(ckpts, global_step)
          /\ pc' = "eval_decode"
          /\ UNCHANGED error
       \/ /\ Raise("Failure")
          /\ UNCHANGED ckpts
    /\ UNCHANGED <<config, saved, patience, global_step, last_stats_step, stats,
                   sessions, iter_pos, skip_count, dev_ppl, decode_ids,
                   best_evals, inputs, history, is_overflow, test_vars>>

\* line 153
EvalDecode == SampleDecode("eval_decode", "eval_dev")

\* line 154: run_internal_eval
EvalDev ==
    /\ pc = "eval_dev"
    /\ \/ /\ dev_ppl' \in DevPpls
          /\ pc' = "eval_update"
          /\ UNCHANGED error
       \/ /\ Raise("Failure")
          /\ UNCHANGED dev_ppl
    /\ UNCHANGED <<config, saved, patience, global_step, last_stats_step,
                   last_eval_step, stats, sessions, iter_pos, skip_count,
                   decode_ids, ckpts, best_evals, inputs, history, is_overflow, test_vars>>

\* the eval cycle that measured dev_ppl, recorded in the history variables
EvalHistory ==
    /\ non_improving' = IF dev_ppl < config.best_dev_ppl THEN 0
                        ELSE non_improving + 1
    /\ degrading' = IF dev_ppl < config.best_dev_ppl THEN 0
                    ELSE IF dev_ppl * degrade_threshold[2]
                              > degrade_threshold[1] * config.best_dev_ppl
                    THEN degrading + 1
                    ELSE degrading
    /\ min_ppl' = Min(min_ppl, dev_ppl)

\* EvalUpdate that saves RunConfig only after an improvement
EvalUpdate_SaveOnImprove ==
    /\ pc = "eval_update"
    /\ config' = [config EXCEPT !.best_dev_ppl = NextBest(dev_ppl, @)]
    /\ patience' = NextPatience(dev_ppl, config.best_dev_ppl, patience,
                                config.patience)
    /\ saved' = IF Improved(dev_ppl, config.best_dev_ppl) THEN config'
                ELSE saved
    /\ pc' = "while"
    /\ EvalHistory
    /\ UNCHANGED <<error, global_step, last_stats_step, last_eval_step, stats,
                   sessions, iter_pos, skip_count, dev_ppl, decode_ids, ckpts,
                   best_evals, inputs, is_overflow, test_vars>>

\* lines 155-176: best_dev_ppl and patience updated, RunConfig saved
EvalUpdate ==
    /\ pc = "eval_update"
    /\ config' = [config EXCEPT !.best_dev_ppl = NextBest(dev_ppl, @)]
    /\ patience' = NextPatience(dev_ppl, config.best_dev_ppl, patience,
                                config.patience)
    /\ saved' = config'
    /\ pc' = "while"
    /\ EvalHistory
    /\ UNCHANGED <<error, global_step, last_stats_step, last_eval_step, stats,
                   sessions, iter_pos, skip_count, dev_ppl, decode_ids, ckpts,
                   best_evals, inputs, is_overflow, test_vars>>

\* FinalSave tagged with the step of the last eval cycle
FinalSave_LastEval ==
    /\ pc = "final_save"
    /\ \/ /\ ckpts' = Append(ckpts, last_eval_step)
          /\ pc' = "final_eval"
          /\ UNCHANGED error
       \/ /\ Raise("Failure")
          /\ UNCHANGED ckpts
    /\ UNCHANGED <<config, saved, patience, global_step, last_stats_step,
                   last_eval_step, stats, sessions, iter_pos, skip_count, dev_ppl,
                   decode_ids, best_evals, inputs, history, is_overflow,
                   test_vars>>

\* lines 178-183: the final checkpoint
FinalSave ==
    /\ pc = "final_save"
    /\ \/ /\ ckpts' = Append(ckpts, global_step)
          /\ pc' = "final_eval"
          /\ UNCHANGED error
       \/ /\ Raise("Failure")
          /\ UNCHANGED ckpts
    /\ UNCHANGED <<config, saved, patience, global_step, last_stats_step,
                   last_eval_step, stats, sessions, iter_pos, skip_count, dev_ppl,
                   decode_ids, best_evals, inputs, history, is_overflow, test_vars>>

\* lines 194-205: the final best-model evaluation
FinalEval ==
    /\ pc = "final_eval"
    /\ IF eval_best_model
       THEN \/ /\ best_evals' = best_evals + 1
               /\ pc' = "close"
               /\ UNCHANGED error
            \/ /\ Raise("Failure")
               /\ UNCHANGED best_evals
       ELSE /\ pc' = "close"
            /\ UNCHANGED <<error, best_evals>>
    /\ UNCHANGED <<config, saved, patience, global_step, last_stats_step,
                   last_eval_step, stats, sessions, iter_pos, skip_count, dev_ppl,
                   decode_ids, ckpts, inputs, history, is_overflow, test_vars>>

\* lines 207-211
CloseSessions ==
    /\ pc = "close"
    /\ sessions' = sessions \ TrainSessions
    /\ pc' = "done"
    /\ UNCHANGED <<error, config, saved, patience, global_step, last_stats_step,
                   last_eval_step, stats, iter_pos, skip_count, dev_ppl,
                   decode_ids, ckpts, best_evals, inputs, history, is_overflow, test_vars>>

Next ==
    \/ TrainStart
    \/ WhileTest
    \/ StepOk
    \/ StepExhausted
    \/ StepFail
    \/ RollDecode
    \/ RollUpdate
    \/ StatsReport
    \/ EvalSkip
    \/ EvalSave
    \/ EvalDecode
    \/ EvalDev
    \/ EvalUpdate
    \/ FinalSave
    \/ FinalEval
    \/ CloseSessions

Spec == Init /\ [][Next]_vars

\* the calls of train() that start a fresh run (epoch 0, epoch_step 0, a
\* checkpoint of step 0) with a dev set of more than one example, on which
\* sample decode can succeed
InitLive ==
    /\ Init
    /\ config.epoch = 0
    /\ config.epoch_step = 0
    /\ loaded_step = 0
    /\ dev_size = MaxDev

\* train() is one thread of control: while a statement remains, one is executed
SpecLive == InitLive /\ [][Next]_vars /\ WF_vars(Next)

\* ------------------------------------------------------------ test()

TestIdleTrain ==
    /\ pc = "idle"
    /\ error = "none"
    /\ config = [epoch |-> 0, epoch_step |-> 0, best_dev_ppl |-> Inf,
                 patience |-> 0]
    /\ saved = config
    /\ patience = 0
    /\ loaded_step = 0
    /\ global_step = 0
    /\ last_stats_step = 0
    /\ last_eval_step = 0
    /\ stats = 0
    /\ is_overflow = FALSE
    /\ sessions = {}
    /\ iter_pos = 0
    /\ skip_count = 0
    /\ dev_ppl = 0
    /\ decode_ids = <<>>
    /\ ckpts = <<>>
    /\ best_evals = 0
    /\ num_train_epochs = 0
    /\ steps_per_stats = 1
    /\ steps_per_eval = 1
    /\ batch_size = 1
    /\ train_size = 0
    /\ dev_size = 0
    /\ degrade_threshold = <<11, 10>>
    /\ eval_best_model = FALSE
    /\ num_train_steps = 0
    /\ non_improving = 0
    /\ degrading = 0
    /\ min_ppl = Inf

TestInit ==
    /\ tpc = "t_start"
    /\ n_responses \in -1 .. MaxBeam
    /\ beam_width \in -1 .. MaxBeam
    /\ t_models = {}
    /\ t_loaded = {}
    /\ t_sessions = {}

InitTest == TestIdleTrain /\ TestInit

\* line 272
AssertResponses == n_responses >= 1

\* AssertBeam with < for <=
AssertBeam_Strict ==
    IF beam_width > 0 THEN n_responses < beam_width ELSE n_responses = 1

\* lines 274-277
AssertBeam ==
    IF beam_width > 0 THEN n_responses <= beam_width ELSE n_responses = 1

\* lines 272-277: an assert fails, AssertionError leaves test()
TestReject ==
    /\ tpc = "t_start"
    /\ ~(AssertResponses /\ AssertBeam)
    /\ tpc' = "t_rejected"
    /\ UNCHANGED <<n_responses, beam_width, t_models, t_loaded, t_sessions,
                   train_vars>>

\* lines 272-281: the asserts pass, the inference model is created
TestCreateInfer ==
    /\ tpc = "t_start"
    /\ AssertResponses /\ AssertBeam
    /\ t_models' = t_models \cup {"infer"}
    /\ tpc' = "t_infer_model"
    /\ UNCHANGED <<n_responses, beam_width, t_loaded, t_sessions, train_vars>>

\* lines 283-288: the inference session is opened, the latest checkpoint loaded
TestLoadInfer ==
    /\ tpc = "t_infer_model"
    /\ t_sessions' = t_sessions \cup {"infer"}
    /\ t_loaded' = t_loaded \cup {"infer"}
    /\ tpc' = "t_decode"
    /\ UNCHANGED <<n_responses, beam_width, t_models, train_vars>>

\* lines 290-311: decoding, then the with block closes the session
TestDecode ==
    /\ tpc = "t_decode"
    /\ t_sessions' = t_sessions \ {"infer"}
    /\ tpc' = "t_decoded"
    /\ UNCHANGED <<n_responses, beam_width, t_models, t_loaded, train_vars>>

\* lines 313-318: the eval model is created and loaded in its own session
TestLoadEval ==
    /\ tpc = "t_decoded"
    /\ t_models' = t_models \cup {"eval"}
    /\ t_sessions' = t_sessions \cup {"eval"}
    /\ t_loaded' = t_loaded \cup {"eval"}
    /\ tpc' = "t_perplexity"
    /\ UNCHANGED <<n_responses, beam_width, train_vars>>

\* lines 320-329: perplexity on the test set, the session is closed
TestPerplexity ==
    /\ tpc = "t_perplexity"
    /\ t_sessions' = t_sessions \ {"eval"}
    /\ tpc' = "t_done"
    /\ UNCHANGED <<n_responses, beam_width, t_models, t_loaded, train_vars>>

NextTest ==
    \/ TestReject
    \/ TestCreateInfer
    \/ TestLoadInfer
    \/ TestDecode
    \/ TestLoadEval
    \/ TestPerplexity

SpecTest == InitTest /\ [][NextTest]_vars

\* ------------------------------------------------------------ properties

\* positions inside the body of the while loop
LoopBody == {"step", "roll_decode", "roll_update", "stats", "eval",
             "eval_decode", "eval_dev", "eval_update"}

\* positions at which _sample_decode is about to run
DecodePcs == {"roll_decode", "eval_decode"}

\* C1 instance: configured patience 3, threshold 1.1, best infinite, dev_ppl
\* 50, 60, 70 gives best_dev_ppl 50 and patience 3, 2, 1
C1_Instance ==
    degrade_threshold = <<11, 10>> =>
        LET b1 == NextBest(50, Inf)
            p1 == NextPatience(50, Inf, 3, 3)
            b2 == NextBest(60, b1)
            p2 == NextPatience(60, b1, p1, 3)
            b3 == NextBest(70, b2)
            p3 == NextPatience(70, b2, p2, 3)
        IN  <<b1, p1, b2, p2, b3, p3>> = <<50, 3, 50, 2, 50, 1>>

\* C1: in every eval cycle, with remaining patience p and best_dev_ppl b:
\* dev_ppl < b sets best_dev_ppl to dev_ppl and the counter to the configured
\* maximum; else dev_ppl > degrade_threshold * b makes the counter p - 1 and
\* leaves best_dev_ppl; else (b <= dev_ppl <= degrade_threshold * b) both are
\* unchanged.  No other step of the loop changes the counter.
C1_PatienceUpdate ==
    [][ /\ pc = "eval_update" =>
             LET b == config.best_dev_ppl
                 t == degrade_threshold
             IN  IF dev_ppl < b
                 THEN /\ config'.best_dev_ppl = dev_ppl
                      /\ patience' = config.patience
                 ELSE IF dev_ppl * t[2] > t[1] * b
                 THEN /\ patience' = patience - 1
                      /\ config'.best_dev_ppl = b
                 ELSE /\ patience' = patience
                      /\ config'.best_dev_ppl = b
                      /\ b <= dev_ppl
                      /\ dev_ppl * t[2] <= t[1] * b
        /\ pc \notin {"start", "eval_update"} => patience' = patience
        /\ C1_Instance
      ]_vars

\* three eval cycles have run: an improvement to 50, then two degradations,
\* the last one with dev_ppl 70
C1_Witness ==
    /\ pc = "while"
    /\ config.patience = 3
    /\ config.best_dev_ppl = 50
    /\ patience = 1
    /\ dev_ppl = 70
    /\ Len(ckpts) = 3

\* C2: the loop ends when the remaining patience reaches 0, whatever the epoch:
\* from then on no step, rollover, stats report or eval cycle runs; with a
\* configured patience <= 0 no step runs at all.
C2_PatienceStops ==
    [][ /\ (pc = "while" /\ patience <= 0) => pc' = "final_save"
        /\ pc' \in LoopBody => patience' > 0
        /\ config'.patience <= 0 => pc' \notin LoopBody
        /\ (pc # "start" /\ patience <= 0) =>
             /\ pc' \notin LoopBody
             /\ global_step' = global_step
             /\ config' = config
             /\ last_stats_step' = last_stats_step
             /\ last_eval_step' = last_eval_step
      ]_vars

\* the loop was left with patience exhausted by eval cycles, epochs and batches
\* still to go
C2_Witness ==
    /\ pc = "final_save"
    /\ patience = 0
    /\ config.patience > 0
    /\ config.epoch < num_train_epochs
    /\ HasBatch

\* C3: the loop ends when epoch reaches num_train_epochs, whatever the
\* remaining patience: no step is attempted after the rollover that makes
\* epoch = num_train_epochs, nor in a run started with epoch >= num_train_epochs.
C3_EpochStops ==
    [][ /\ (pc = "while" /\ config.epoch >= num_train_epochs) =>
             pc' = "final_save"
        /\ pc' \in LoopBody => config'.epoch < num_train_epochs
        /\ config.epoch >= num_train_epochs =>
             /\ pc' \notin LoopBody
             /\ pc # "start" => global_step' = global_step
             /\ config' = config
      ]_vars

\* the loop was left after a rollover made epoch = num_train_epochs, with
\* patience left
C3_Witness ==
    /\ pc = "final_save"
    /\ config.epoch = num_train_epochs
    /\ config.epoch_step = 0
    /\ global_step > loaded_step
    /\ patience > 0

\* C4: an epoch rollover sets epoch_step to 0, adds 1 to epoch, saves RunConfig
\* with these values, re-initialises the iterator with skip count 0 and leaves
\* global_step, best_dev_ppl, the remaining patience, last_stats_step,
\* last_eval_step and the stats accumulator alone; the iteration runs no stats
\* report and no eval cycle.  Nothing else changes epoch.
C4_Rollover ==
    [][ /\ pc = "roll_update" =>
             /\ config'.epoch_step = 0
             /\ config'.epoch = config.epoch + 1
             /\ config'.best_dev_ppl = config.best_dev_ppl
             /\ saved' = config'
             /\ skip_count' = 0
             /\ iter_pos' = 0
             /\ pc' = "while"
             /\ UNCHANGED <<global_step, patience, last_stats_step,
                            last_eval_step, stats>>
        /\ ((pc = "step" /\ ~HasBatch) \/ pc = "roll_decode") =>
             /\ pc' \in {"roll_decode", "roll_update", "raised"}
             /\ UNCHANGED <<config, saved, global_step, patience,
                            last_stats_step, last_eval_step, stats>>
        /\ config'.epoch # config.epoch => pc = "roll_update"
        /\ config'.epoch >= config.epoch
      ]_vars

\* a rollover happened after steps of this run, between two stats reports
C4_Witness ==
    /\ pc = "while"
    /\ config.epoch >= 1
    /\ config.epoch_step = 0
    /\ global_step > loaded_step
    /\ stats = 1
    /\ saved = config

\* C5: global_step never decreases; only a successful step advances it; the
\* final checkpoint is tagged with global_step, which is >= the loaded value.
C5_GlobalStepMonotone ==
    [][ /\ global_step' >= global_step
        /\ (pc # "start" /\ global_step' # global_step) =>
             /\ pc = "step"
             /\ HasBatch
             /\ pc' = "stats"
             /\ global_step' > global_step
        /\ (pc = "final_save" /\ pc' = "final_eval") =>
             /\ ckpts'[Len(ckpts')] = global_step
             /\ global_step >= loaded_step
        /\ pc' # "start" => global_step' >= loaded_step
      ]_vars

\* a run with steps, eval cycles and a rollover has ended
C5_Witness ==
    /\ pc = "done"
    /\ config.epoch >= 1
    /\ global_step > loaded_step + 1
    /\ Len(ckpts) >= 2

\* C6: on a single-element held-out set the sample decode selects index 0 and
\* completes normally.
C6_SingleElement ==
    [][ (pc \in DecodePcs /\ dev_size = 1) =>
            (decode_ids' = <<0>> /\ pc' # "raised") ]_vars

\* C7: for n >= 1 examples the indices _sample_decode can select are exactly
\* 0 .. n-1.
C7_AllIndices ==
    (pc \in DecodePcs /\ dev_size >= 1) =>
        sample_decode_ids(dev_size) = 0 .. (dev_size - 1)

\* what C8 says test() accepts
C8_Accepts ==
    /\ n_responses >= 1
    /\ \/ beam_width > 0 /\ n_responses <= beam_width
       \/ beam_width <= 0 /\ n_responses = 1

\* C8: test() goes on iff n_responses >= 1 and (beam_width > 0 and n_responses
\* <= beam_width, or beam_width <= 0 and n_responses = 1); a rejection comes
\* before any model, checkpoint load or session.
C8_TestPrecondition ==
    /\ tpc = "t_rejected" =>
         /\ ~C8_Accepts
         /\ t_models = {} /\ t_loaded = {} /\ t_sessions = {}
    /\ tpc \in {"t_infer_model", "t_decode", "t_decoded", "t_perplexity",
                "t_done"} => C8_Accepts
    /\ tpc = "t_start" => (t_models = {} /\ t_loaded = {} /\ t_sessions = {})
    /\ (n_responses = 3 /\ beam_width = 5) => tpc # "t_rejected"
    /\ (n_responses = 3 /\ beam_width = 0) => tpc \in {"t_start", "t_rejected"}

\* n_responses = 3 with beam_width = 0 was rejected
C8_Witness ==
    /\ tpc = "t_rejected"
    /\ n_responses = 3
    /\ beam_width = 0

\* C9: what the loop holds when it saves RunConfig (epoch, epoch_step,
\* best_dev_ppl, remaining patience) is what a loop started from the saved
\* RunConfig begins with.
C9_RoundTrip ==
    [][ (pc \in {"roll_update", "eval_update"} /\ pc' = "while") =>
            LoopState' = ResumeState(saved') ]_vars

\* C10: when train() has exited, normally or by an exception, no session it
\* opened is open.
C10_SessionsClosed ==
    pc \in {"done", "raised"} => sessions = {}

\* positions of the loop: its test and its body
LoopPcs == LoopBody \cup {"while"}

\* positions after the loop
FinalPcs == {"final_save", "final_eval", "close", "done"}

\* C11: however the loop ends, one final checkpoint is saved, tagged with the
\* last global_step, after the last iteration; the best-model evaluation runs
\* iff eval_best_model, after that save and before the sessions are closed.
C11_FinalCheckpoint ==
    [][ /\ (pc \in LoopPcs /\ pc' \notin LoopPcs \cup {"raised"}) =>
             pc' = "final_save"
        /\ (pc = "final_save" /\ pc' # "raised") =>
             /\ ckpts' = Append(ckpts, global_step)
             /\ pc' = "final_eval"
        /\ (pc \in FinalPcs /\ pc # "final_save") => ckpts' = ckpts
        /\ pc \in FinalPcs =>
             /\ pc' \notin LoopPcs
             /\ global_step' = global_step
        /\ (pc = "final_eval" /\ pc' # "raised") =>
             /\ best_evals' = best_evals + (IF eval_best_model THEN 1 ELSE 0)
             /\ sessions = TrainSessions
             /\ pc' = "close"
        /\ best_evals' # best_evals => (pc = "final_eval" /\ eval_best_model)
        /\ pc' = "done" => best_evals' = (IF eval_best_model THEN 1 ELSE 0)
      ]_vars

\* a run with eval cycles has ended: final checkpoint, best-model evaluation,
\* sessions closed
C11_Witness ==
    /\ pc = "done"
    /\ eval_best_model
    /\ best_evals = 1
    /\ Len(ckpts) >= 2
    /\ ckpts[Len(ckpts)] = global_step
    /\ sessions = {}

\* C12: an overflow found by a stats report ends the loop in that iteration:
\* no step, rollover or eval cycle follows, not even an eval cycle that is
\* due; only a stats report finds an overflow.
C12_OverflowFatal ==
    [][ /\ (pc = "stats" /\ is_overflow') =>
             /\ pc' = "final_save"
             /\ global_step - last_stats_step >= steps_per_stats
             /\ UNCHANGED <<global_step, config, saved, patience,
                            last_eval_step, ckpts, dev_ppl, decode_ids>>
        /\ is_overflow' # is_overflow =>
             (pc = "stats" /\ global_step - last_stats_step >= steps_per_stats)
        /\ is_overflow =>
             /\ pc' \notin LoopPcs
             /\ UNCHANGED <<global_step, config, saved, patience,
                            last_eval_step, dev_ppl, decode_ids>>
      ]_vars

\* the loop was left by an overflow while an eval cycle was due and epochs,
\* batches and patience were left
C12_Witness ==
    /\ pc = "final_save"
    /\ is_overflow
    /\ global_step - last_eval_step >= steps_per_eval
    /\ config.epoch < num_train_epochs
    /\ patience > 0
    /\ HasBatch

\* C13: right after every epoch rollover and every eval cycle, whichever
\* branch it took, the saved epoch, epoch_step and best_dev_ppl are the ones
\* in memory.
C13_Persisted ==
    [][ (pc \in {"roll_update", "eval_update"}) =>
          (/\ saved'.epoch = config'.epoch
           /\ saved'.epoch_step = config'.epoch_step
           /\ saved'.best_dev_ppl = config'.best_dev_ppl) ]_vars

\* an eval cycle in the dead zone (55 against a best of 50) has just saved
C13_Witness ==
    /\ pc = "while"
    /\ dev_ppl = 55
    /\ config.best_dev_ppl = 50
    /\ non_improving >= 1
    /\ config.epoch_step >= 2
    /\ saved = config

\* C14 as claimed: with configured patience P the loop stops by patience
\* exhaustion exactly at the P-th consecutive eval cycle whose dev_ppl is not
\* lower than best_dev_ppl, and never runs more than P of them in a row.
C14_Consecutive ==
    (pc # "start" /\ config.patience > 0) =>
        /\ non_improving <= config.patience
        /\ (patience <= 0) <=> (non_improving = config.patience)

\* C14 as amended: with configured patience P > 0 the remaining patience is P
\* less the eval cycles, since the start or the last improvement, with
\* dev_ppl > degrade_threshold * best_dev_ppl; the loop stops by patience
\* exhaustion exactly when there are P of them.  Dead-zone cycles do not count.
C14_Degrading ==
    [][ (pc' # "start" /\ config'.patience > 0) =>
          (/\ patience' = config'.patience - degrading'
           /\ degrading' <= config'.patience
           /\ (pc = "while" /\ config.epoch < num_train_epochs) =>
                ((pc' = "final_save") <=> (degrading = config.patience))) ]_vars

\* patience ran out after more non-improving eval cycles in a row than the
\* configured patience
C14_Witness ==
    /\ pc = "final_save"
    /\ config.patience > 0
    /\ patience = 0
    /\ degrading = config.patience
    /\ non_improving > config.patience

\* C15: a successful step first adds to epoch_step and global_step; the stats
\* report comes before the eval cycle; the eval cycle saves the checkpoint of
\* the current global_step, then decodes a sample, then measures dev_ppl, then
\* updates patience and best_dev_ppl, then saves RunConfig.  No dev evaluation
\* runs at a global_step without a checkpoint.
C15_Ordering ==
    [][ /\ (pc = "step" /\ pc' = "stats") =>
             /\ config'.epoch_step = config.epoch_step + 1
             /\ global_step' > global_step
        /\ pc' = "stats" => pc = "step"
        /\ pc = "stats" => pc' \in {"eval", "final_save"}
        /\ pc' = "eval" => pc = "stats"
        /\ (pc = "eval" /\ pc' \notin {"while", "raised"}) =>
             /\ pc' = "eval_decode"
             /\ ckpts' = Append(ckpts, global_step)
        /\ pc = "eval_decode" =>
             /\ pc' \in {"eval_dev", "raised"}
             /\ UNCHANGED <<ckpts, dev_ppl, config, patience, saved>>
        /\ pc = "eval_dev" =>
             /\ pc' \in {"eval_update", "raised"}
             /\ UNCHANGED <<ckpts, decode_ids, config, patience, saved>>
        /\ pc = "eval_update" =>
             /\ pc' = "while"
             /\ saved' = config'
             /\ UNCHANGED <<ckpts, decode_ids, dev_ppl>>
        /\ dev_ppl' # dev_ppl =>
             /\ pc = "eval_dev"
             /\ Len(ckpts) > 0
             /\ ckpts[Len(ckpts)] = global_step
      ]_vars

\* an iteration with a stats report and an eval cycle that has saved, decoded
\* and measured
C15_Witness ==
    /\ pc = "eval_update"
    /\ last_stats_step = global_step
    /\ last_eval_step = global_step
    /\ stats = 0
    /\ ckpts # <<>>
    /\ ckpts[Len(ckpts)] = global_step
    /\ decode_ids # <<>>
    /\ dev_ppl \in DevPpls

C17_BestIsMin ==
    [][ /\ config'.best_dev_ppl = min_ppl'
        /\ config'.best_dev_ppl <= config.best_dev_ppl
        /\ config'.best_dev_ppl # config.best_dev_ppl => pc = "eval_update"
      ]_vars

\* the best went from 60 down to 50 over eval cycles, the last one worse
C17_Witness ==
    /\ pc = "while"
    /\ config.best_dev_ppl = 50
    /\ min_ppl = 50
    /\ dev_ppl = 70
    /\ non_improving = 1
    /\ Len(ckpts) >= 3

\* C18: with finite epochs, and no overflow and no failure ever, train() leaves
\* the loop and reaches the final checkpoint save, whatever num_train_epochs,
\* the training set size and the dev_ppl values are.
C18_Terminates ==
    [](error = "none" /\ ~is_overflow) => <>(pc = "final_save")

\* the final save is reached over an empty training set: both epochs were
\* rollovers only, no eval cycle ran and patience was never decremented
C18_Witness ==
    /\ pc = "final_save"
    /\ error = "none"
    /\ ~is_overflow
    /\ train_size = 0
    /\ num_train_epochs = MaxEpochs
    /\ config.epoch = num_train_epochs
    /\ config.epoch_step = 0
    /\ global_step = loaded_step
    /\ patience = config.patience
    /\ ckpts = <<>>

\* C19: once the final checkpoint is saved, the persisted RunConfig equals the
\* in-memory RunConfig in epoch, epoch_step and best_dev_ppl.
C19_ExitPersisted ==
    pc \in {"final_eval", "close", "done"} =>
        /\ saved.epoch = config.epoch
        /\ saved.epoch_step = config.epoch_step
        /\ saved.best_dev_ppl = config.best_dev_ppl

\* C20 as stated: global_step never exceeds num_train_steps during train().
C20_StepBudget ==
    pc \in LoopPcs \cup FinalPcs => global_step <= num_train_steps

\* C20: a step is executed, adding 1 to global_step, only in an iteration
\* entered with epoch < num_train_epochs and patience > 0; num_train_steps
\* takes no part, and global_step can exceed it.
C20_StepGuard ==
    [][ (pc \in LoopPcs /\ global_step' # global_step) =>
            /\ pc = "step"
            /\ global_step' = global_step + 1
            /\ config.epoch < num_train_epochs
            /\ patience > 0
            /\ num_train_steps' = num_train_steps
      ]_vars

\* train() ended normally with more steps done than num_train_steps
C20_Witness ==
    /\ pc = "done"
    /\ error = "none"
    /\ global_step > num_train_steps
    /\ global_step - loaded_step > num_train_steps

====
